---- MODULE Spec2Model ----
(***************************************************************************)
(* A model of src/src/palworld_rcon/source_rcon.py: the Source RCON packet *)
(* codec (RconPacket.pack / RconPacket.unpack) and one call of             *)
(* SourceRcon.send_command over a TCP socket.                              *)
(*                                                                         *)
(* Representation.  A Python str is a sequence of code points, a bytes     *)
(* object is a sequence of integers 0..255.  An attribute that may be None *)
(* is a sequence of length at most one: << >> is None, <<v>> is the value  *)
(* v.  Integers are 32-bit: every value handled by struct is built and     *)
(* read byte by byte, two's complement, little-endian.                     *)
(***************************************************************************)
EXTENDS Integers, Sequences, FiniteSets, TLC

VARIABLES
    \* ---- one call of SourceRcon.send_command ----
    pc,             \* position of the call: start, connected, auth_recv, authed, cmd_recv, done
    command,        \* send_command's parameter command (str)
    args,           \* send_command's parameter args (list of str)
    RCON_PASSWORD,  \* SourceRcon.RCON_PASSWORD (str)
    srv,            \* the peer: what it replies to an AUTH and to an EXECCOMMAND packet
    sock,           \* the socket s of the with statement: connect, recv and close calls
    sent,           \* the byte strings handed to sendall that reached the peer, in order
    stream,         \* bytes the peer has written that the client has not read yet
    response,       \* receive_all's local variable response
    reads,          \* what each sock.recv of the call returned, in order, with the loop it was in
    auth_response,  \* auth_to_rcon's local variable auth_response (None before it is set)
    authOK,         \* the value auth_to_rcon returned (None before it returns)
    result,         \* how the call ended: the string returned, or the exception raised
    \* ---- one use of the packet codec ----
    cpc,            \* position: new (a packet to pack), raw (bytes to unpack), packed, unpacked, raised, idle
    cpkt,           \* the RconPacket object pack is called on
    craw,           \* the bytes pack returned, or the bytes given to unpack
    cout            \* the RconPacket unpack returned (None before)

sessionVars == <<pc, command, args, RCON_PASSWORD, srv, sock, sent, stream,
                 response, reads, auth_response, authOK, result>>
codecVars == <<cpc, cpkt, craw, cout>>
vars == <<pc, command, args, RCON_PASSWORD, srv, sock, sent, stream,
          response, reads, auth_response, authOK, result, cpc, cpkt, craw, cout>>

(***************************************************************************)
(* Bounds of the model.                                                    *)
(***************************************************************************)
\* receive_all's chunk size bytes_in.  The source's default is 4096 (line 82);
\* the model scales it down so that a reply can fill a whole chunk.
bytes_in == 20
\* Longest run of arbitrary bytes after a 12-byte header given to unpack.
MaxTail == 3

(***************************************************************************)
(* Program constants.                                                      *)
(***************************************************************************)
SERVERDATA_AUTH == 3
SERVERDATA_AUTH_RESPONSE == 2
SERVERDATA_EXECCOMMAND == 2
SERVERDATA_RESPONSE_VALUE == 0
RCON_PACKET_HEADER_LENGTH == 12
RCON_PACKET_TERMINATOR_LENGTH == 2
AUTH_FAILED_RESPONSE == -1
terminator == <<0>>
\* create_packet's default request_id
request_id == 1

None == << >>
Some(v) == <<v>>

\* String literals of the source, as code points.
\* "Failed to establish connection."
FAILED_CONNECTION ==
    <<70, 97, 105, 108, 101, 100, 32, 116, 111, 32, 101, 115, 116, 97, 98, 108,
      105, 115, 104, 32, 99, 111, 110, 110, 101, 99, 116, 105, 111, 110, 46>>
\* "Authentication failed. not running command."
FAILED_AUTH ==
    <<65, 117, 116, 104, 101, 110, 116, 105, 99, 97, 116, 105, 111, 110, 32,
      102, 97, 105, 108, 101, 100, 46, 32, 110, 111, 116, 32, 114, 117, 110,
      110, 105, 110, 103, 32, 99, 111, 109, 109, 97, 110, 100, 46>>
\* "Invalid packet"
INVALID_PACKET == <<73, 110, 118, 97, 108, 105, 100, 32, 112, 97, 99, 107, 101, 116>>
\* "broadcast"
BROADCAST == <<98, 114, 111, 97, 100, 99, 97, 115, 116>>
\* " " and "\x1F"
SPACE == <<32>>
FAKE_SPACE == <<31>>

(***************************************************************************)
(* Python built-ins the source uses.                                       *)
(***************************************************************************)
Min(a, b) == IF a < b THEN a ELSE b

\* s[lo:-cut] of Python, for lo >= 0 and cut > 0 (empty when the ends cross).
PySlice(s, lo, cut) ==
    IF Len(s) - cut >= lo + 1 THEN SubSeq(s, lo + 1, Len(s) - cut) ELSE << >>

\* str.encode("ascii"): each code point below 128 becomes the byte of the same
\* value; any other code point raises UnicodeEncodeError.
encode_ascii(s) ==
    IF \A i \in 1..Len(s) : s[i] < 128
    THEN [err |-> FALSE, val |-> [i \in 1..Len(s) |-> s[i]]]
    ELSE [err |-> TRUE, val |-> << >>]

\* One step of bytes.decode("utf-8", errors="replace") at position i of b:
\* the code point produced and the number of bytes consumed.  An invalid or
\* truncated sequence yields U+FFFD for its maximal valid prefix.
Utf8Step(b, i) ==
    LET n == Len(b)
        In(j, lo, hi) == j <= n /\ b[j] >= lo /\ b[j] <= hi
        Cont(j) == In(j, 128, 191)
        c == b[i]
        bad(k) == [cp |-> 65533, used |-> k]
    IN  IF c < 128 THEN [cp |-> c, used |-> 1]
        ELSE IF c >= 194 /\ c <= 223 THEN
            IF Cont(i + 1)
            THEN [cp |-> (c - 192) * 64 + (b[i + 1] - 128), used |-> 2]
            ELSE bad(1)
        ELSE IF c >= 224 /\ c <= 239 THEN
            IF ~In(i + 1, IF c = 224 THEN 160 ELSE 128, IF c = 237 THEN 159 ELSE 191)
            THEN bad(1)
            ELSE IF ~Cont(i + 2) THEN bad(2)
            ELSE [cp |-> (c - 224) * 4096 + (b[i + 1] - 128) * 64 + (b[i + 2] - 128),
                  used |-> 3]
        ELSE IF c >= 240 /\ c <= 244 THEN
            IF ~In(i + 1, IF c = 240 THEN 144 ELSE 128, IF c = 244 THEN 143 ELSE 191)
            THEN bad(1)
            ELSE IF ~Cont(i + 2) THEN bad(2)
            ELSE IF ~Cont(i + 3) THEN bad(3)
            ELSE [cp |-> (c - 240) * 262144 + (b[i + 1] - 128) * 4096
                         + (b[i + 2] - 128) * 64 + (b[i + 3] - 128),
                  used |-> 4]
        ELSE bad(1)

\* The code points decoded from position i of b on.
Utf8From(b, i) ==
    LET from[j \in i..(Len(b) + 1)] ==
            IF j > Len(b) THEN << >>
            ELSE LET st == Utf8Step(b, j) IN <<st.cp>> \o from[j + st.used]
    IN  from[i]

\* bytes.decode("utf-8", errors="replace"): never raises.
decode_utf8(b) == Utf8From(b, 1)

\* Faulty variant of PackI32: the four bytes in big-endian order (">i").
PackI32_BigEndian(v) ==
    LET w == IF v >= 0 THEN v ELSE (v + 2147483647) + 1
        top == w \div 16777216
    IN  <<IF v >= 0 THEN top ELSE top + 128, (w \div 65536) % 256,
          (w \div 256) % 256, w % 256>>

\* struct.pack("<i", v): four bytes, little-endian, two's complement.
PackI32(v) ==
    LET w == IF v >= 0 THEN v ELSE (v + 2147483647) + 1
        top == w \div 16777216
    IN  <<w % 256, (w \div 256) % 256, (w \div 65536) % 256,
          IF v >= 0 THEN top ELSE top + 128>>

\* struct.unpack("<i", b): the signed value of four little-endian bytes.
UnpackI32(b) ==
    LET low == b[1] + b[2] * 256 + b[3] * 65536
    IN  IF b[4] < 128 THEN low + b[4] * 16777216
        ELSE ((low + (b[4] - 128) * 16777216) - 2147483647) - 1

\* struct.pack("<iii", a, b, c) and struct.unpack("<iii", h)
struct_pack(a, b, c) == PackI32(a) \o PackI32(b) \o PackI32(c)
struct_unpack(h) ==
    <<UnpackI32(SubSeq(h, 1, 4)), UnpackI32(SubSeq(h, 5, 8)), UnpackI32(SubSeq(h, 9, 12))>>

(***************************************************************************)
(* RconPacket                                                              *)
(***************************************************************************)
RconPacket(size, id, type, body) == [size |-> size, id |-> id, type |-> type, body |-> body]

\* pack, lines 36-38
body_encoded(p) ==
    LET e == encode_ascii(p.body)
    IN  [err |-> e.err, val |-> IF e.err THEN << >> ELSE e.val \o terminator]

\* pack, lines 39-41: the value stored in self.size
pack_size(p) == Len(body_encoded(p).val) + 10

\* RconPacket.pack: the bytes returned; err when the body is not ASCII.
pack(p) ==
    LET be == body_encoded(p)
    IN  IF be.err THEN [err |-> TRUE, val |-> << >>]
        ELSE [err |-> FALSE,
              val |-> struct_pack(pack_size(p), p.id[1], p.type[1]) \o be.val \o terminator]

\* Faulty variant of unpack: only one of the two terminator bytes is cut off
\* the body (packet[12:-1]).
unpack_OneTerminator(packet) ==
    IF Len(packet) < RCON_PACKET_HEADER_LENGTH
    THEN RconPacket(None, None, None, INVALID_PACKET)
    ELSE LET h == struct_unpack(SubSeq(packet, 1, RCON_PACKET_HEADER_LENGTH))
         IN  RconPacket(Some(h[1]), Some(h[2]), Some(h[3]),
                        decode_utf8(PySlice(packet, RCON_PACKET_HEADER_LENGTH, 1)))

\* Faulty variant of unpack: the length guard is <= instead of <, so a bare
\* 12-byte header is taken for an invalid packet.
unpack_GuardOffByOne(packet) ==
    IF Len(packet) <= RCON_PACKET_HEADER_LENGTH
    THEN RconPacket(None, None, None, INVALID_PACKET)
    ELSE LET h == struct_unpack(SubSeq(packet, 1, RCON_PACKET_HEADER_LENGTH))
         IN  RconPacket(Some(h[1]), Some(h[2]), Some(h[3]),
                        decode_utf8(PySlice(packet, RCON_PACKET_HEADER_LENGTH,
                                            RCON_PACKET_TERMINATOR_LENGTH)))

\* Faulty variant of unpack: a packet whose last two bytes are not both null
\* is rejected as invalid.
unpack_CheckTerminators(packet) ==
    IF \/ Len(packet) < RCON_PACKET_HEADER_LENGTH
       \/ /\ Len(packet) >= RCON_PACKET_HEADER_LENGTH + RCON_PACKET_TERMINATOR_LENGTH
          /\ SubSeq(packet, Len(packet) - 1, Len(packet)) # <<0, 0>>
    THEN RconPacket(None, None, None, INVALID_PACKET)
    ELSE LET h == struct_unpack(SubSeq(packet, 1, RCON_PACKET_HEADER_LENGTH))
         IN  RconPacket(Some(h[1]), Some(h[2]), Some(h[3]),
                        decode_utf8(PySlice(packet, RCON_PACKET_HEADER_LENGTH,
                                            RCON_PACKET_TERMINATOR_LENGTH)))

\* RconPacket.unpack
unpack(packet) ==
    IF Len(packet) < RCON_PACKET_HEADER_LENGTH
    THEN RconPacket(None, None, None, INVALID_PACKET)
    ELSE LET h == struct_unpack(SubSeq(packet, 1, RCON_PACKET_HEADER_LENGTH))
         IN  RconPacket(Some(h[1]), Some(h[2]), Some(h[3]),
                        decode_utf8(PySlice(packet, RCON_PACKET_HEADER_LENGTH,
                                            RCON_PACKET_TERMINATOR_LENGTH)))

(***************************************************************************)
(* The packet codec on its own: pack a packet, unpack bytes.               *)
(***************************************************************************)
\* Sample of the 32-bit range: both ends, the auth sentinel, the type codes,
\* and values whose bytes differ in every position.
Int32Sample == {(-2147483647) - 1, -1, 0, 1, 2, 3, 258, 16909060, 2147483647}
PacketTypes == {SERVERDATA_AUTH, SERVERDATA_EXECCOMMAND, SERVERDATA_RESPONSE_VALUE}
\* Code points of packet bodies: NUL, space, "A", DEL and the non-ASCII e-acute.
BodyChars == {0, 32, 65, 127, 233}
\* Longest body handed to pack.
MaxBody == 2
\* Bytes of arbitrary input to unpack: NUL, "A", a valid two-byte UTF-8
\* sequence (195 169), and 255, which is valid nowhere in UTF-8.
RawBytes == {0, 65, 195, 169, 255}

SeqsUpTo(S, n) == UNION {[1..k -> S] : k \in 0..n}
Prefixes(s) == {SubSeq(s, 1, k) : k \in 0..Len(s)}

\* The packets pack is applied to.
PackInputs ==
    {RconPacket(None, Some(id), Some(ty), body) :
        id \in Int32Sample, ty \in PacketTypes, body \in SeqsUpTo(BodyChars, MaxBody)}

\* The byte strings unpack is applied to: every prefix (lengths 0, 1, 2, ...)
\* of a 12-byte header followed by up to MaxTail arbitrary bytes.
RawInputs ==
    UNION {Prefixes(struct_pack(sz, id, ty) \o tail) :
        sz \in {-1, 0, 10}, id \in {(-2147483647) - 1, -1, 0, 1},
        ty \in {0, 2, 3}, tail \in SeqsUpTo(RawBytes, MaxTail)}

CodecIdle == cpc = "idle" /\ cpkt = None /\ craw = << >> /\ cout = None

\* packet.pack(), as create_packet calls it (lines 76-77)
CPack ==
    /\ cpc = "new"
    /\ LET p == cpkt[1]
           r == pack(p)
       IN  IF r.err
           THEN /\ cpc' = "raised"
                /\ UNCHANGED <<cpkt, craw>>
           ELSE /\ cpc' = "packed"
                /\ cpkt' = Some([p EXCEPT !.size = Some(pack_size(p))])
                /\ craw' = r.val
    /\ UNCHANGED cout
    /\ UNCHANGED sessionVars

\* RconPacket.unpack(bytes), as check_auth_response and execute_command call it
CUnpack ==
    /\ cpc \in {"packed", "raw"}
    /\ cout' = Some(unpack(craw))
    /\ cpc' = "unpacked"
    /\ UNCHANGED <<cpkt, craw>>
    /\ UNCHANGED sessionVars

(***************************************************************************)
(* The peer and the socket.                                                *)
(***************************************************************************)
\* A reply in the wire format [size][id][type][body][0x00][0x00].
ServerFrame(id, type, body) ==
    struct_pack(Len(body) + 10, id, type) \o body \o <<0, 0>>

\* "ping", "ping " and "pong"
PING == <<112, 105, 110, 103>>
PING_SP == <<112, 105, 110, 103, 32>>
PONG == <<112, 111, 110, 103>>

\* A body that makes a reply exactly one chunk long.
FillBody == [i \in 1..(bytes_in - 14) |-> 65]

\* Replies to the AUTH packet: accepted (id 1, id 0, and one filling a whole
\* chunk), refused (id -1), a packet of another type, three stray bytes, nothing.
AuthReplies ==
    {ServerFrame(1, SERVERDATA_AUTH_RESPONSE, << >>),
     ServerFrame(0, SERVERDATA_AUTH_RESPONSE, << >>),
     ServerFrame(1, SERVERDATA_AUTH_RESPONSE, FillBody),
     ServerFrame(-1, SERVERDATA_AUTH_RESPONSE, << >>),
     ServerFrame(1, SERVERDATA_RESPONSE_VALUE, << >>),
     <<1, 2, 3>>,
     << >>}

\* Replies to a command the peer does not know: no body, a non-ASCII body
\* (e-acute in UTF-8), a body that is not UTF-8, a body "A" under a header
\* whose id (7) and size (0) match nothing the client sent, nothing at all.
MissReplies ==
    {ServerFrame(1, SERVERDATA_RESPONSE_VALUE, << >>),
     ServerFrame(1, SERVERDATA_RESPONSE_VALUE, <<195, 169>>),
     ServerFrame(1, SERVERDATA_RESPONSE_VALUE, <<255, 65>>),
     struct_pack(0, 7, SERVERDATA_RESPONSE_VALUE) \o <<65, 0, 0>>,
     << >>}

\* The reply to the command the peer knows: body "pong".
PongReply == ServerFrame(1, SERVERDATA_RESPONSE_VALUE, PONG)

\* Peers: srv.auth answers an AUTH packet; an EXECCOMMAND packet whose body is
\* srv.key is answered with body "pong", any other with srv.miss.
Servers == [auth : AuthReplies, key : {PING, PING_SP}, miss : MissReplies]

\* The body bytes of a well-formed packet the peer received.
WireBody(pkt) == SubSeq(pkt, 13, Len(pkt) - 2)
WireType(pkt) == UnpackI32(SubSeq(pkt, 9, 12))

\* What the peer writes back on receiving pkt, the n-th packet of the
\* connection: the first is the authentication, the others are commands.
ServerReply(s, n, pkt) ==
    IF n = 1 THEN s.auth
    ELSE IF WireBody(pkt) = s.key THEN PongReply
    ELSE s.miss

\* Faulty variant of RecvOutcomes: the socket has no timeout and the peer
\* never closes, so recv has no outcome while nothing is unread.
RecvOutcomes_NoTimeout(st) ==
    {[kind |-> "data", part |-> SubSeq(st, 1, k)] : k \in 1..Min(Len(st), bytes_in)}

\* sock.recv(bytes_in) with st unread: any non-empty prefix of st of at most
\* bytes_in bytes; b"" when nothing is unread and the peer has closed; or a
\* socket.error (the timeout, a reset) at any time.
RecvOutcomes(st) ==
    {[kind |-> "data", part |-> SubSeq(st, 1, k)] : k \in 1..Min(Len(st), bytes_in)}
    \cup {[kind |-> "error", part |-> << >>]}
    \cup (IF st = << >> THEN {[kind |-> "data", part |-> << >>]} ELSE {})

\* socket.socket(...) of the with statement
NewSocket == [connected |-> FALSE, closed |-> FALSE,
              connectCalls |-> 0, recvCalls |-> 0, closeCalls |-> 0]

\* Faulty variant of socket_exit: the socket is left open (no with statement).
socket_exit_Leak(s) == s

\* The with statement's exit: socket.__exit__ closes the socket.
socket_exit(s) == [s EXCEPT !.closed = TRUE, !.closeCalls = @ + 1]

Returned(v) == [kind |-> "returned", exc |-> "", value |-> v]
Raised(e) == [kind |-> "raised", exc |-> e, value |-> << >>]
NoResult == [kind |-> "running", exc |-> "", value |-> << >>]

(***************************************************************************)
(* SourceRcon                                                              *)
(***************************************************************************)
\* create_packet: the packed bytes of RconPacket(id=request_id, type, body=command)
create_packet(body, type) == pack(RconPacket(None, Some(request_id), Some(type), body))

\* Faulty variant of receive_step: each chunk replaces what was accumulated
\* (response = part instead of response += part).
receive_step_Overwrite(resp, r) ==
    IF r.kind = "error" THEN [response |-> resp, more |-> FALSE]
    ELSE IF r.part = << >> THEN [response |-> resp, more |-> FALSE]
    ELSE [response |-> r.part, more |-> ~(Len(r.part) < bytes_in)]

\* Faulty variant of receive_step: a short chunk ends the loop without being
\* appended.
receive_step_DropShort(resp, r) ==
    IF r.kind = "error" THEN [response |-> resp, more |-> FALSE]
    ELSE IF r.part = << >> THEN [response |-> resp, more |-> FALSE]
    ELSE IF Len(r.part) < bytes_in THEN [response |-> resp, more |-> FALSE]
    ELSE [response |-> resp \o r.part, more |-> TRUE]

\* Faulty variant of receive_step: a socket error discards what the loop had
\* accumulated.
receive_step_ErrorClears(resp, r) ==
    IF r.kind = "error" THEN [response |-> << >>, more |-> FALSE]
    ELSE IF r.part = << >> THEN [response |-> resp, more |-> FALSE]
    ELSE [response |-> resp \o r.part, more |-> ~(Len(r.part) < bytes_in)]

\* One iteration of receive_all's loop on the outcome r of sock.recv:
\* the new value of response and whether the loop goes round again.
receive_step(resp, r) ==
    IF r.kind = "error" THEN [response |-> resp, more |-> FALSE]
    ELSE IF r.part = << >> THEN [response |-> resp, more |-> FALSE]
    ELSE [response |-> resp \o r.part, more |-> ~(Len(r.part) < bytes_in)]

\* Faulty variant of check_auth_response: the packet type is not looked at.
check_auth_response_NoType(auth_response_packet) ==
    LET unpacked_packet == unpack(auth_response_packet)
    IN  IF unpacked_packet.size = None
        THEN FALSE
        ELSE unpacked_packet.id # Some(AUTH_FAILED_RESPONSE)

\* Faulty variant of check_auth_response: the id is compared with 0 instead
\* of the sentinel -1.
check_auth_response_IdZero(auth_response_packet) ==
    LET unpacked_packet == unpack(auth_response_packet)
    IN  IF unpacked_packet.size = None
           \/ unpacked_packet.type # Some(SERVERDATA_AUTH_RESPONSE)
        THEN FALSE
        ELSE unpacked_packet.id # Some(0)

\* check_auth_response
check_auth_response(auth_response_packet) ==
    LET unpacked_packet == unpack(auth_response_packet)
    IN  IF unpacked_packet.size = None
           \/ unpacked_packet.type # Some(SERVERDATA_AUTH_RESPONSE)
        THEN FALSE
        ELSE unpacked_packet.id # Some(AUTH_FAILED_RESPONSE)

\* str.lower() on the ASCII letters (no other code point lowers to a letter
\* of "broadcast").
str_lower(s) == [i \in 1..Len(s) |-> IF s[i] >= 65 /\ s[i] <= 90 THEN s[i] + 32 ELSE s[i]]

\* str.replace(" ", "\x1F")
replace_spaces(s) == [i \in 1..Len(s) |-> IF <<s[i]>> = SPACE THEN FAKE_SPACE[1] ELSE s[i]]

\* Faulty variant of str_join: the strings are joined without a separator.
RECURSIVE str_join_NoSep(_)
str_join_NoSep(l) ==
    IF Len(l) = 0 THEN << >> ELSE l[1] \o str_join_NoSep(Tail(l))

\* " ".join(list)
RECURSIVE str_join(_)
str_join(l) ==
    IF Len(l) = 0 THEN << >>
    ELSE IF Len(l) = 1 THEN l[1]
    ELSE l[1] \o SPACE \o str_join(Tail(l))

\* Faulty variant of command_text: the broadcast message is sent with its
\* spaces left as they are.
command_text_NoReplace(cmd, a) ==
    IF str_lower(cmd) = BROADCAST
    THEN IF Len(a) = 0 THEN [err |-> TRUE, val |-> << >>]
         ELSE [err |-> FALSE, val |-> cmd \o SPACE \o a[1]]
    ELSE [err |-> FALSE, val |-> cmd \o SPACE \o str_join(a)]

\* Faulty variant of command_text: no space is added after the command name
\* when there are no arguments.
command_text_NoSpace(cmd, a) ==
    IF str_lower(cmd) = BROADCAST
    THEN IF Len(a) = 0 THEN [err |-> TRUE, val |-> << >>]
         ELSE [err |-> FALSE, val |-> cmd \o SPACE \o replace_spaces(a[1])]
    ELSE IF Len(a) = 0 THEN [err |-> FALSE, val |-> cmd]
    ELSE [err |-> FALSE, val |-> cmd \o SPACE \o str_join(a)]

\* send_command, lines 154-161: the command text; err for args[0] of an empty list.
command_text(cmd, a) ==
    IF str_lower(cmd) = BROADCAST
    THEN IF Len(a) = 0 THEN [err |-> TRUE, val |-> << >>]
         ELSE [err |-> FALSE, val |-> cmd \o SPACE \o replace_spaces(a[1])]
    ELSE [err |-> FALSE, val |-> cmd \o SPACE \o str_join(a)]

\* Faulty variant of command_result: the response is sliced and decoded
\* without unpack's length guard, so a short response gives the empty string.
command_result_NoGuard(resp) ==
    decode_utf8(PySlice(resp, RCON_PACKET_HEADER_LENGTH, RCON_PACKET_TERMINATOR_LENGTH))

\* execute_command, lines 140-142: the body of the unpacked response
command_result(resp) == unpack(resp).body

\* The end of the call: the with statement closes the socket, then the value
\* is returned or the exception propagates.
Finish(s, res) ==
    /\ pc' = "done"
    /\ sock' = socket_exit(s)
    /\ result' = res

(***************************************************************************)
(* One call of send_command.                                               *)
(***************************************************************************)
\* Command names: "ping", "broadcast", "BROADCAST" and the non-ASCII "pi" + e-acute.
Commands ==
    {PING, BROADCAST, <<66, 82, 79, 65, 68, 67, 65, 83, 84>>, <<112, 105, 233>>}
\* Argument lists: none, ["a b"], ["a b", "c"], and one non-ASCII argument.
ArgLists == {<< >>, <<(<<97, 32, 98>>)>>, <<(<<97, 32, 98>>), <<99>>>>, <<(<<233>>)>>}
\* Passwords: "pw" and the non-ASCII "p" + e-acute.
Passwords == {<<112, 119>>, <<112, 233>>}

SessionIdle ==
    /\ pc = "idle" /\ command = << >> /\ args = << >> /\ RCON_PASSWORD = << >>
    /\ srv = [auth |-> << >>, key |-> << >>, miss |-> << >>]
    /\ sock = NewSocket /\ sent = << >> /\ stream = << >> /\ response = << >>
    /\ reads = << >>
    /\ auth_response = None /\ authOK = None /\ result = NoResult

\* send_command entered: the socket is created (line 145), nothing done yet.
Init ==
    /\ pc = "start"
    /\ command \in Commands
    /\ args \in ArgLists
    /\ RCON_PASSWORD \in Passwords
    /\ srv \in Servers
    /\ sock = NewSocket
    /\ sent = << >>
    /\ stream = << >>
    /\ response = << >>
    /\ reads = << >>
    /\ auth_response = None
    /\ authOK = None
    /\ result = NoResult
    /\ CodecIdle

\* Faulty variant of Connect: establish_connection does not catch the
\* exception connect raises.
Connect_NoCatch ==
    /\ pc = "start"
    /\ \E ok \in BOOLEAN :
        LET s == [sock EXCEPT !.connectCalls = @ + 1]
        IN  IF ok
            THEN /\ sock' = [s EXCEPT !.connected = TRUE]
                 /\ pc' = "connected"
                 /\ UNCHANGED result
            ELSE Finish(s, Raised("socket.error"))
    /\ UNCHANGED <<command, args, RCON_PASSWORD, srv, sent, stream, response,
                   reads, auth_response, authOK>>
    /\ UNCHANGED codecVars

\* Faulty variant of Connect: a failed connect is tried once more before the
\* call gives up.
Connect_Retry ==
    /\ pc = "start"
    /\ \E ok \in BOOLEAN :
        LET s == [sock EXCEPT !.connectCalls = @ + 1]
        IN  IF ok
            THEN /\ sock' = [s EXCEPT !.connected = TRUE]
                 /\ pc' = "connected"
                 /\ UNCHANGED result
            ELSE IF sock.connectCalls = 0
            THEN /\ sock' = s
                 /\ UNCHANGED <<pc, result>>
            ELSE Finish(s, Returned(FAILED_CONNECTION))
    /\ UNCHANGED <<command, args, RCON_PASSWORD, srv, sent, stream, response,
                   reads, auth_response, authOK>>
    /\ UNCHANGED codecVars

\* Lines 148-149: establish_connection; connect succeeds, or raises and the
\* call returns the failure string.
Connect ==
    /\ pc = "start"
    /\ \E ok \in BOOLEAN :
        LET s == [sock EXCEPT !.connectCalls = @ + 1]
        IN  IF ok
            THEN /\ sock' = [s EXCEPT !.connected = TRUE]
                 /\ pc' = "connected"
                 /\ UNCHANGED result
            ELSE Finish(s, Returned(FAILED_CONNECTION))
    /\ UNCHANGED <<command, args, RCON_PASSWORD, srv, sent, stream, response,
                   reads, auth_response, authOK>>
    /\ UNCHANGED codecVars

\* auth_to_rcon, lines 112-115, and the entry of receive_all (line 83):
\* the AUTH packet is packed and sent.  Packing a non-ASCII password raises
\* UnicodeEncodeError and sendall may raise socket.error; neither is caught.
AuthSend ==
    /\ pc = "connected"
    /\ LET auth_packet == create_packet(RCON_PASSWORD, SERVERDATA_AUTH)
       IN  IF auth_packet.err
           THEN /\ Finish(sock, Raised("UnicodeEncodeError"))
                /\ UNCHANGED <<sent, stream, response>>
           ELSE \E ok \in BOOLEAN :
                IF ok
                THEN /\ sent' = Append(sent, auth_packet.val)
                     /\ stream' = stream \o ServerReply(srv, Len(sent) + 1, auth_packet.val)
                     /\ response' = << >>
                     /\ pc' = "auth_recv"
                     /\ UNCHANGED <<sock, result>>
                ELSE /\ Finish(sock, Raised("socket.error"))
                     /\ UNCHANGED <<sent, stream, response>>
    /\ UNCHANGED <<command, args, RCON_PASSWORD, srv, reads, auth_response, authOK>>
    /\ UNCHANGED codecVars

\* Faulty variant of AuthRecv: send_command goes on to the command whatever
\* auth_to_rcon returned.
AuthRecv_IgnoreFailure ==
    /\ pc = "auth_recv"
    /\ \E r \in RecvOutcomes(stream) :
        LET st == receive_step(response, r)
        IN  /\ response' = st.response
            /\ stream' = SubSeq(stream, Len(r.part) + 1, Len(stream))
            /\ reads' = Append(reads, [loop |-> Len(sent), kind |-> r.kind, part |-> r.part])
            /\ sock' = [sock EXCEPT !.recvCalls = @ + 1]
            /\ IF st.more
               THEN UNCHANGED <<pc, auth_response, authOK, result>>
               ELSE /\ auth_response' = Some(st.response)
                    /\ authOK' = Some(check_auth_response(st.response))
                    /\ pc' = "authed"
                    /\ UNCHANGED result
    /\ UNCHANGED <<command, args, RCON_PASSWORD, srv, sent>>
    /\ UNCHANGED codecVars

\* auth_to_rcon, lines 118-124, one recv of receive_all at a time; when the
\* loop ends the response is checked, and on failure send_command returns
\* (line 152).
AuthRecv ==
    /\ pc = "auth_recv"
    /\ \E r \in RecvOutcomes(stream) :
        LET st == receive_step(response, r)
            s == [sock EXCEPT !.recvCalls = @ + 1]
        IN  /\ response' = st.response
            /\ stream' = SubSeq(stream, Len(r.part) + 1, Len(stream))
            /\ reads' = Append(reads, [loop |-> Len(sent), kind |-> r.kind, part |-> r.part])
            /\ IF st.more
               THEN /\ sock' = s
                    /\ UNCHANGED <<pc, auth_response, authOK, result>>
               ELSE /\ auth_response' = Some(st.response)
                    /\ authOK' = Some(check_auth_response(st.response))
                    /\ IF check_auth_response(st.response)
                       THEN /\ pc' = "authed"
                            /\ sock' = s
                            /\ UNCHANGED result
                       ELSE Finish(s, Returned(FAILED_AUTH))
    /\ UNCHANGED <<command, args, RCON_PASSWORD, srv, sent>>
    /\ UNCHANGED codecVars

\* Lines 154-164 and execute_command, lines 136-137: the command text is
\* built, packed and sent.  args[0] of an empty list raises IndexError,
\* packing a non-ASCII text raises UnicodeEncodeError and sendall may raise
\* socket.error; none is caught.
ExecuteSend ==
    /\ pc = "authed"
    /\ LET text == command_text(command, args)
           command_packet == create_packet(text.val, SERVERDATA_EXECCOMMAND)
       IN  IF text.err
           THEN /\ Finish(sock, Raised("IndexError"))
                /\ UNCHANGED <<sent, stream, response>>
           ELSE IF command_packet.err
           THEN /\ Finish(sock, Raised("UnicodeEncodeError"))
                /\ UNCHANGED <<sent, stream, response>>
           ELSE \E ok \in BOOLEAN :
                IF ok
                THEN /\ sent' = Append(sent, command_packet.val)
                     /\ stream' = stream \o ServerReply(srv, Len(sent) + 1, command_packet.val)
                     /\ response' = << >>
                     /\ pc' = "cmd_recv"
                     /\ UNCHANGED <<sock, result>>
                ELSE /\ Finish(sock, Raised("socket.error"))
                     /\ UNCHANGED <<sent, stream, response>>
    /\ UNCHANGED <<command, args, RCON_PASSWORD, srv, reads, auth_response, authOK>>
    /\ UNCHANGED codecVars

\* execute_command, lines 139-142, one recv of receive_all at a time; when
\* the loop ends the response is unpacked and its body returned (line 164).
CmdRecv ==
    /\ pc = "cmd_recv"
    /\ \E r \in RecvOutcomes(stream) :
        LET st == receive_step(response, r)
            s == [sock EXCEPT !.recvCalls = @ + 1]
        IN  /\ response' = st.response
            /\ stream' = SubSeq(stream, Len(r.part) + 1, Len(stream))
            /\ reads' = Append(reads, [loop |-> Len(sent), kind |-> r.kind, part |-> r.part])
            /\ IF st.more
               THEN /\ sock' = s
                    /\ UNCHANGED <<pc, result>>
               ELSE Finish(s, Returned(command_result(st.response)))
    /\ UNCHANGED <<command, args, RCON_PASSWORD, srv, sent, auth_response, authOK>>
    /\ UNCHANGED codecVars

Next == Connect \/ AuthSend \/ AuthRecv \/ ExecuteSend \/ CmdRecv

Spec == Init /\ [][Next]_vars

\* Most full-size chunks the peer adds to its replies in one call.
MaxFlood == 2
\* The bytes the peer has written so far: those read and those unread.
Delivered ==
    LET total[k \in 0..Len(reads)] ==
            IF k = 0 THEN 0 ELSE total[k - 1] + Len(reads[k].part)
    IN  Len(stream) + total[Len(reads)]
\* The peer writes one more full-size chunk while the client is in a
\* reassembly loop; it stops after MaxFlood of them (no endless run).
PeerFlood ==
    /\ pc \in {"auth_recv", "cmd_recv"}
    /\ Delivered < MaxFlood * bytes_in
    /\ stream' = stream \o [i \in 1..bytes_in |-> 65]
    /\ UNCHANGED <<pc, command, args, RCON_PASSWORD, srv, sock, sent, response,
                   reads, auth_response, authOK, result>>
    /\ UNCHANGED codecVars

\* One call with a peer that may flood.  The calling thread keeps running
\* and every socket operation returns or fails within the timeout set on
\* line 147, so the client's steps are weakly fair; the peer's are not.
LiveNext == Next \/ PeerFlood

\* The calls followed to their end: "ping" and "broadcast", with no argument
\* and with one, either password, against a peer that accepts, refuses or
\* ignores the authentication and answers the command or not.
LiveInit ==
    /\ Init
    /\ command \in {PING, BROADCAST}
    /\ Len(args) <= 1
    /\ srv.auth \in {ServerFrame(1, SERVERDATA_AUTH_RESPONSE, << >>),
                     ServerFrame(-1, SERVERDATA_AUTH_RESPONSE, << >>), << >>}
    /\ srv.key = PING_SP
    /\ srv.miss \in {ServerFrame(1, SERVERDATA_RESPONSE_VALUE, <<195, 169>>), << >>}

LiveSpec == LiveInit /\ [][LiveNext]_vars /\ WF_vars(Next)

\* The codec on its own: a packet to pack, or bytes to unpack.
CodecInit ==
    /\ SessionIdle
    /\ cout = None
    /\ \/ cpc = "new" /\ cpkt \in {Some(p) : p \in PackInputs} /\ craw = << >>
       \/ cpc = "raw" /\ cpkt = None /\ craw \in RawInputs

CodecNext == CPack \/ CUnpack

CodecSpec == CodecInit /\ [][CodecNext]_vars

(***************************************************************************)
(* Properties.                                                             *)
(***************************************************************************)
Done == pc = "done"
IsAscii(str) == \A i \in 1..Len(str) : str[i] < 128
\* The peer's reply to the n-th packet the client sent.
ReplyTo(n) == ServerReply(srv, n, sent[n])
\* The body the peer put in a reply (none when it replied nothing).
ReplyBody(reply) == IF Len(reply) >= 14 THEN WireBody(reply) ELSE << >>
\* Both packets reached the peer and each reassembly loop accumulated exactly
\* the peer's reply to it.
CleanExchange ==
    /\ Len(sent) = 2
    /\ auth_response = Some(srv.auth)
    /\ response = ReplyTo(2)

\* C1: send_command never raises: every call ends by returning a string.
C1_NeverRaises == Done => result.kind = "returned"

\* C2: on every exit path the socket has been closed exactly once, and it is
\* closed by the time the call has returned or raised; it is not closed while
\* the call is still running.
C2_ClosedExactlyOnce ==
    /\ Done => (sock.closed /\ sock.closeCalls = 1)
    /\ result.kind \in {"returned", "raised"} => (sock.closed /\ sock.closeCalls = 1)
    /\ ~Done => (~sock.closed /\ sock.closeCalls = 0 /\ result = NoResult)

\* C2 witness: a call that raised in the middle of the exchange, after
\* authenticating, with its socket closed once.
C2_Witness ==
    /\ Done /\ result.kind = "raised" /\ authOK = Some(TRUE)
    /\ sock.closed /\ sock.closeCalls = 1

\* C3: authentication reports success if and only if the bytes received
\* after the AUTH packet are at least 12, bytes 8..11 are the little-endian
\* type 2 (AUTH_RESPONSE) and bytes 4..7 are not the little-endian id -1.
C3_AuthIff ==
    authOK # None =>
        LET r == auth_response[1]
        IN  (authOK = Some(TRUE)) <=>
                /\ Len(r) >= 12
                /\ SubSeq(r, 9, 12) = <<2, 0, 0, 0>>
                /\ SubSeq(r, 5, 8) # <<255, 255, 255, 255>>

\* C3 witness: success reported on a response of type AUTH_RESPONSE with id 0.
C3_Witness ==
    /\ authOK = Some(TRUE)
    /\ SubSeq(auth_response[1], 5, 8) = <<0, 0, 0, 0>>
    /\ SubSeq(auth_response[1], 9, 12) = <<2, 0, 0, 0>>

\* The peer answers the AUTH packet with id -1 and type AUTH_RESPONSE.
AuthRefused ==
    /\ Len(srv.auth) >= 12
    /\ UnpackI32(SubSeq(srv.auth, 5, 8)) = -1
    /\ UnpackI32(SubSeq(srv.auth, 9, 12)) = SERVERDATA_AUTH_RESPONSE

\* C4: when the peer answers the AUTH packet with id -1 and type
\* AUTH_RESPONSE, no EXECCOMMAND packet is ever sent, and the call returns
\* exactly "Authentication failed. not running command." with the socket closed.
C4_AuthRefusedOutcome ==
    (AuthRefused /\ Len(sent) >= 1) =>
        /\ Len(sent) = 1
        /\ WireType(sent[1]) = SERVERDATA_AUTH
        /\ pc \in {"auth_recv", "done"}
        /\ Done => (result = Returned(FAILED_AUTH) /\ sock.closed)

\* C4 witness: the whole refusal was read and the call returned the failure string.
C4_Witness ==
    /\ Done /\ AuthRefused /\ auth_response = Some(srv.auth)
    /\ result = Returned(FAILED_AUTH) /\ sock.closed

\* C5: when connect fails, the call returns exactly "Failed to establish
\* connection.", nothing was sent and recv was never called.
C5_ConnectFailure ==
    (Done /\ ~sock.connected) =>
        /\ result = Returned(FAILED_CONNECTION)
        /\ sent = << >>
        /\ sock.recvCalls = 0
        /\ sock.connectCalls = 1

\* C5 witness: a call ended by a failed connect.
C5_Witness == Done /\ ~sock.connected /\ sock.connectCalls = 1 /\ result.kind = "returned"

\* The call send_command("ping", []) against a peer that accepts the
\* authentication with id 1, type AUTH_RESPONSE, over a clean exchange.
PingScenario ==
    /\ Done /\ command = PING /\ args = << >>
    /\ srv.auth = ServerFrame(1, SERVERDATA_AUTH_RESPONSE, << >>)
    /\ CleanExchange

\* C6 as stated: against a peer that replies "pong" to an EXECCOMMAND packet
\* whose body is "ping", send_command("ping", []) returns "pong".
C6_PongForPing == (PingScenario /\ srv.key = PING) => result = Returned(PONG)

\* C6 amended: against a peer that replies "pong" to the EXECCOMMAND packet
\* whose body is "ping " (the text sent: the name, a space and the empty
\* join), send_command("ping", []) returns "pong" when both replies are
\* received whole.
C6_PongForPingSpace ==
    (PingScenario /\ srv.key = PING_SP) =>
        /\ WireBody(sent[2]) = PING_SP
        /\ result = Returned(PONG)

\* C6 witness: the scenario with the peer that knows "ping ".
C6_Witness == PingScenario /\ srv.key = PING_SP /\ result = Returned(PONG)

\* C7 as stated: every string returned is one of the two failure strings or
\* the body of the peer's reply to the command (empty when it sent no body).
C7_BodyOrFailure ==
    (Done /\ result.kind = "returned") =>
        \/ result.value \in {FAILED_CONNECTION, FAILED_AUTH}
        \/ /\ Len(sent) = 2
           /\ result.value = decode_utf8(ReplyBody(ReplyTo(2)))

\* C7 amended: every string returned is "Failed to establish connection."
\* (connect failed), "Authentication failed. not running command."
\* (authentication failed), or what unpack makes of the bytes the command's
\* reassembly loop accumulated: "Invalid packet" when they are fewer than 12,
\* else bytes 12 .. len-2 decoded as UTF-8 with replacement.  That is the body
\* of the peer's reply whenever the loop accumulated exactly that reply, and
\* the empty string when that reply has no body.
C7_ReturnedStrings ==
    (Done /\ result.kind = "returned") =>
        /\ ~sock.connected => result.value = FAILED_CONNECTION
        /\ authOK = Some(FALSE) => result.value = FAILED_AUTH
        /\ (sock.connected /\ authOK # Some(FALSE)) =>
              /\ authOK = Some(TRUE) /\ Len(sent) = 2
              /\ Len(response) < 12 => result.value = INVALID_PACKET
              /\ Len(response) \in {12, 13} => result.value = << >>
              /\ Len(response) >= 14 =>
                    result.value = decode_utf8(SubSeq(response, 13, Len(response) - 2))
              /\ (response = ReplyTo(2) /\ Len(response) >= 14) =>
                    result.value = decode_utf8(ReplyBody(ReplyTo(2)))
              /\ (response = ReplyTo(2) /\ Len(response) = 14) => result.value = << >>

\* C7 witness: after a successful authentication the peer's reply without a
\* body was read whole and the empty string returned.
C7_Witness ==
    /\ Done /\ authOK = Some(TRUE) /\ Len(sent) = 2
    /\ response = ReplyTo(2) /\ Len(response) = 14
    /\ result = Returned(<< >>)

\* C8: round trip: unpacking the bytes pack made of (id, EXECCOMMAND, body),
\* body ASCII and id any 32-bit value, yields that body, that id and the
\* type EXECCOMMAND.
C8_RoundTrip ==
    (cpc = "unpacked" /\ cpkt # None /\ IsAscii(cpkt[1].body)
        /\ cpkt[1].type = Some(SERVERDATA_EXECCOMMAND)) =>
        /\ cout[1].body = cpkt[1].body
        /\ cout[1].id = cpkt[1].id
        /\ cout[1].type = Some(SERVERDATA_EXECCOMMAND)

\* C8 witness: a two-character body with the most negative id went round.
C8_Witness ==
    /\ cpc = "unpacked" /\ cpkt # None
    /\ cpkt[1].type = Some(SERVERDATA_EXECCOMMAND)
    /\ cpkt[1].id = Some((-2147483647) - 1)
    /\ Len(cpkt[1].body) = 2
    /\ cout[1].body = cpkt[1].body

\* C9: size invariant: the size field unpack reads back from the bytes pack
\* produced equals their length minus 4, that is
\* 4 (id) + 4 (type) + len(body) + 1 + 1.
C9_SizeField ==
    (cpc = "unpacked" /\ cpkt # None) =>
        /\ cout[1].size = Some(Len(craw) - 4)
        /\ cout[1].size = Some(4 + 4 + Len(cpkt[1].body) + 1 + 1)

\* C10: short-packet guard: for bytes of length 0..11 unpack returns a packet
\* with size, id and type unset and body "Invalid packet"; for 12 bytes or
\* more it returns a packet with all three numeric fields set.
C10_ShortPacketGuard ==
    (cpc = "unpacked") =>
        IF Len(craw) < 12
        THEN cout[1] = [size |-> None, id |-> None, type |-> None, body |-> INVALID_PACKET]
        ELSE /\ Len(cout[1].size) = 1
             /\ Len(cout[1].id) = 1
             /\ Len(cout[1].type) = 1
             /\ cout[1].size[1] = UnpackI32(SubSeq(craw, 1, 4))

\* C10 witness: an 11-byte input was unpacked to the sentinel packet.
C10_Witness ==
    /\ cpc = "unpacked" /\ cpkt = None /\ Len(craw) = 11
    /\ cout[1].body = INVALID_PACKET /\ cout[1].size = None

\* The command text sent: the body of the second packet that reached the peer.
TextSent == WireBody(sent[2])
\* A message with every space (32) replaced by the unit separator (31).
Encoded(m) == [i \in 1..Len(m) |-> IF m[i] = 32 THEN 31 ELSE m[i]]
\* The first n strings of a, with one space between neighbours.
RECURSIVE JoinedFirst(_, _)
JoinedFirst(a, n) ==
    IF n = 0 THEN << >>
    ELSE IF n = 1 THEN a[1]
    ELSE JoinedFirst(a, n - 1) \o <<32>> \o a[n]

\* C11 as stated: when the command name is "broadcast" in any letter case,
\* the text sent is the word "broadcast", a space and the first argument with
\* its spaces replaced by 0x1F.
C11_BroadcastLiteral ==
    (Len(sent) >= 2 /\ str_lower(command) = BROADCAST) =>
        /\ Len(args) >= 1
        /\ TextSent = BROADCAST \o <<32>> \o Encoded(args[1])

\* C11 amended: when the command name is "broadcast" in any letter case, the
\* text sent is the name as the caller wrote it (its case kept), one space,
\* and the first argument only with every space replaced by 0x1F; further
\* arguments are dropped and the message part holds no space.
C11_BroadcastText ==
    (Len(sent) >= 2 /\ str_lower(command) = BROADCAST) =>
        /\ Len(args) >= 1
        /\ TextSent = command \o <<32>> \o Encoded(args[1])
        /\ Len(TextSent) = Len(command) + 1 + Len(args[1])
        /\ \A i \in (Len(command) + 2)..Len(TextSent) : TextSent[i] # 32

\* C11 witness: "BROADCAST" with ["a b", "c"] was sent as "BROADCAST a\x1Fb".
C11_Witness ==
    /\ Len(sent) >= 2 /\ command # BROADCAST /\ str_lower(command) = BROADCAST
    /\ Len(args) = 2
    /\ TextSent = command \o <<32, 97, 31, 98>>

\* C12: for a command name other than "broadcast" (in any letter case) the
\* text sent is the name, one space, and the arguments joined by single
\* spaces; with no arguments it is the name followed by one space.
C12_JoinedText ==
    (Len(sent) >= 2 /\ str_lower(command) # BROADCAST) =>
        /\ TextSent = command \o <<32>> \o JoinedFirst(args, Len(args))
        /\ Len(args) = 0 => TextSent = command \o <<32>>

\* C12 witness: "ping" with ["a b", "c"] was sent as "ping a b c".
C12_Witness ==
    /\ Len(sent) >= 2 /\ command = PING /\ Len(args) = 2
    /\ TextSent = PING \o <<32, 97, 32, 98, 32, 99>>

\* The session's position: 0 Disconnected, 1 Connected (the AUTH exchange
\* runs here), 2 Authenticated, 3 Exchanging, 4 Closed.
Phase(p) ==
    CASE p = "start" -> 0
      [] p \in {"connected", "auth_recv"} -> 1
      [] p = "authed" -> 2
      [] p = "cmd_recv" -> 3
      [] p = "done" -> 4
\* What each phase has done on the wire.
PhaseOrder ==
    /\ Phase(pc) = 0 => (~sock.connected /\ sent = << >> /\ sock.recvCalls = 0)
    /\ Len(sent) >= 1 =>
          (sock.connected /\ Phase(pc) >= 1 /\ WireType(sent[1]) = SERVERDATA_AUTH)
    /\ Phase(pc) \in {2, 3} => authOK = Some(TRUE)
    /\ Len(sent) >= 2 =>
          (authOK = Some(TRUE) /\ Phase(pc) >= 3
           /\ WireType(sent[2]) = SERVERDATA_EXECCOMMAND)
    /\ Len(sent) <= 2
    /\ Phase(pc) = 4 <=> sock.closed

\* C13: the session only moves forward through Disconnected, Connected,
\* Authenticated, Exchanging, Closed: the AUTH packet is sent only after a
\* successful connect, the EXECCOMMAND packet only after authentication
\* succeeded, a packet is sent only in the phase that owns it, and once the
\* socket is closed nothing is sent or received.
C13_ForwardOnly ==
    /\ []PhaseOrder
    /\ [][/\ Phase(pc') >= Phase(pc)
          /\ Len(sent') > Len(sent) =>
                (Phase(pc) = 1 + Len(sent) /\ Len(sent') = Len(sent) + 1 /\ ~sock'.closed)
          /\ sock.closed => (sent' = sent /\ sock' = sock)]_vars

\* C13 witness: a session that went through every phase and was closed.
C13_Witness ==
    /\ Done /\ Len(sent) = 2 /\ authOK = Some(TRUE) /\ sock.closed
    /\ sock.recvCalls >= 2 /\ result.kind = "returned"

\* b is the little-endian two's-complement 32-bit form of v: four bytes, the
\* least significant first, the sign in the top bit of the last.
IsLE32(b, v) ==
    /\ Len(b) = 4
    /\ \A i \in 1..4 : b[i] \in 0..255
    /\ IF v >= 0
       THEN /\ b[4] < 128
            /\ b[1] + 256 * b[2] + 65536 * b[3] + 16777216 * b[4] = v
       ELSE /\ b[4] >= 128
            /\ b[1] + 256 * b[2] + 65536 * b[3] + 16777216 * (b[4] - 128)
                  = (v + 2147483647) + 1

C17_BodySlice ==
    (cpc = "unpacked" /\ Len(craw) >= 12) =>
        LET n == Len(craw)
            mid == SubSeq(craw, 13, n - 2)
        IN  /\ Len(cout[1].size) = 1 /\ IsLE32(SubSeq(craw, 1, 4), cout[1].size[1])
            /\ Len(cout[1].id) = 1 /\ IsLE32(SubSeq(craw, 5, 8), cout[1].id[1])
            /\ Len(cout[1].type) = 1 /\ IsLE32(SubSeq(craw, 9, 12), cout[1].type[1])
            /\ cout[1].body = decode_utf8(mid)
            /\ (\A i \in 1..Len(mid) : mid[i] < 128) => cout[1].body = mid
            /\ n \in {12, 13} => cout[1].body = << >>

\* C17 witness: 15 bytes whose last two are not null were unpacked to the
\* one-character body "A".
C17_Witness ==
    /\ cpc = "unpacked" /\ Len(craw) = 15
    /\ craw[13] = 65 /\ craw[14] = 255 /\ craw[15] = 65
    /\ cout[1].body = <<65>>

\* The reads of the n-th reassembly loop (1: authentication, 2: command), in
\* the order they were made, and the chunks they returned put end to end.
LoopReads(n) == SelectSeq(reads, LAMBDA x : x.loop = n)
RECURSIVE Chunks(_)
Chunks(rs) == IF rs = << >> THEN << >> ELSE rs[1].part \o Chunks(Tail(rs))
FullRead(x) == x.kind = "data" /\ Len(x.part) = bytes_in
\* The n-th loop is running.
InLoop(n) == Len(sent) = n /\ pc \in {"auth_recv", "cmd_recv"}
\* The bytes the n-th loop handed to its caller, or has accumulated so far.
Accumulated(n) ==
    IF n = 1 /\ auth_response # None THEN auth_response[1] ELSE response

\* C15: a reassembly loop accumulates the chunks read, in arrival order; it
\* reads again after every read of exactly the chunk size and stops after
\* the first read of zero bytes or of fewer bytes than the chunk size, that
\* short chunk included in what it returns.
C15_Reassembly ==
    \A n \in 1..Len(sent) :
        LET rs == LoopReads(n)
        IN  /\ Accumulated(n) = Chunks(rs)
            /\ \A i \in 1..(Len(rs) - 1) : FullRead(rs[i])
            /\ InLoop(n) <=> (\A i \in 1..Len(rs) : FullRead(rs[i]))
            /\ Len(rs) <= sock.recvCalls

\* C15 witness: a loop that read a full chunk, read again, got a short chunk
\* and returned both.
C15_Witness ==
    /\ Done /\ Len(sent) = 2
    /\ LET rs == LoopReads(2)
       IN  /\ Len(rs) = 2 /\ FullRead(rs[1])
           /\ rs[2].kind = "data" /\ Len(rs[2].part) \in 1..(bytes_in - 1)
           /\ response = rs[1].part \o rs[2].part

\* The last read made so far raised socket.error.
ErrorRead(rs) == rs # << >> /\ rs[Len(rs)].kind = "error"
\* What unpack and check_auth_response make of the bytes b.
DecodedAsIs(b) ==
    IF Len(b) < 12 THEN INVALID_PACKET ELSE decode_utf8(SubSeq(b, 13, Len(b) - 2))
AcceptedAsIs(b) ==
    /\ Len(b) >= 12
    /\ SubSeq(b, 9, 12) = <<2, 0, 0, 0>>
    /\ SubSeq(b, 5, 8) # <<255, 255, 255, 255>>

\* C16: a socket error raised by a read inside a reassembly loop is not
\* propagated: the step in which it happens raises nothing, ends the loop
\* and leaves the accumulated bytes as they were, and those bytes are then
\* decoded as they are; an error while waiting for the auth response with
\* fewer than 12 bytes accumulated makes send_command return
\* "Authentication failed. not running command.".
C16_ErrorSwallowed ==
    /\ [](/\ ErrorRead(LoopReads(1)) =>
                /\ auth_response = Some(Chunks(LoopReads(1)))
                /\ authOK = Some(AcceptedAsIs(auth_response[1]))
                /\ Len(auth_response[1]) < 12 =>
                      (Done /\ result = Returned(FAILED_AUTH) /\ Len(sent) = 1)
          /\ ErrorRead(LoopReads(2)) =>
                /\ Done /\ response = Chunks(LoopReads(2))
                /\ result = Returned(DecodedAsIs(response)))
    /\ [][(Len(reads') > Len(reads) /\ reads'[Len(reads')].kind = "error") =>
              /\ response' = response
              /\ result'.kind # "raised"
              /\ pc' \notin {"auth_recv", "cmd_recv"}]_vars

\* C16 witness: the command loop read one full chunk, the next read raised,
\* and the call returned what the chunk decodes to.
C16_Witness ==
    /\ Done /\ Len(sent) = 2
    /\ LET rs == LoopReads(2)
       IN  /\ Len(rs) = 2 /\ FullRead(rs[1]) /\ rs[2].kind = "error"
           /\ response = rs[1].part
    /\ result.kind = "returned"

\* The packets of type t among those sent.
SentOfType(t) == {i \in 1..Len(sent) : WireType(sent[i]) = t /\ (t = SERVERDATA_AUTH <=> i = 1)}
ConnectFailed == sock.connectCalls >= 1 /\ ~sock.connected
AuthFailed == authOK = Some(FALSE)
ReceiveError == \E i \in 1..Len(reads) : reads[i].kind = "error"
\* At most one connect, one AUTH packet (the first sent) and one EXECCOMMAND
\* packet (the second) in a call.
AtMostOnce ==
    /\ sock.connectCalls <= 1
    /\ Len(sent) <= 2
    /\ Len(sent) >= 1 => WireType(sent[1]) = SERVERDATA_AUTH
    /\ Len(sent) >= 2 => WireType(sent[2]) = SERVERDATA_EXECCOMMAND

\* C18 as stated: at most one connect, one AUTH and one EXECCOMMAND packet in
\* a call, and after any fault (connect failure, authentication failure,
\* receive error) no further connect or send is attempted.
C18_EveryFaultTerminal ==
    /\ []AtMostOnce
    /\ [][(ConnectFailed \/ AuthFailed \/ ReceiveError) =>
              (sent' = sent /\ sock'.connectCalls = sock.connectCalls)]_vars

\* C18 amended: at most one connect, one AUTH and one EXECCOMMAND packet in
\* a call; after a connect failure or an authentication failure the call is
\* over, with no further connect or send; a receive error is followed by no
\* connect and no AUTH packet, and ends only the reassembly loop it occurs
\* in: the EXECCOMMAND packet is still sent when the bytes the auth loop
\* had accumulated before the error pass the authentication check.
C18_NoRetry ==
    /\ [](/\ AtMostOnce
          /\ ConnectFailed => (Done /\ sent = << >>)
          /\ AuthFailed => (Done /\ Len(sent) = 1)
          /\ ErrorRead(LoopReads(2)) => Done
          /\ (ErrorRead(LoopReads(1)) /\ Len(sent) = 2) =>
                 (authOK = Some(TRUE) /\ AcceptedAsIs(Chunks(LoopReads(1)))))
    /\ [][/\ (ConnectFailed \/ AuthFailed) =>
                 (sent' = sent /\ sock'.connectCalls = sock.connectCalls)
          /\ ReceiveError =>
                 /\ sock'.connectCalls = sock.connectCalls
                 /\ sent' # sent =>
                       /\ Len(sent) = 1 /\ authOK = Some(TRUE)
                       /\ sent' = Append(sent, sent'[2])
                       /\ WireType(sent'[2]) = SERVERDATA_EXECCOMMAND]_vars

\* C18 witness: the auth loop ended on a socket error and the EXECCOMMAND
\* packet was sent all the same.
C18_Witness ==
    /\ ErrorRead(LoopReads(1)) /\ authOK = Some(TRUE)
    /\ Len(sent) = 2 /\ sock.connectCalls = 1

\* C19: every call eventually finishes with its socket closed, when every
\* socket operation returns or fails and the peer's run of full-size chunks
\* ends; a reassembly loop that has ended did so on a zero-length read, a
\* short read or a socket error.
C19_Terminates ==
    /\ <>(Done /\ sock.closed)
    /\ [](\A n \in 1..Len(sent) :
             (~InLoop(n) /\ LoopReads(n) # << >>) =>
                 ~FullRead(LoopReads(n)[Len(LoopReads(n))]))

\* C19 witness: a call that finished after its command loop had read three
\* full-size chunks in a row.
C19_Witness ==
    /\ Done /\ sock.closed /\ Len(sent) = 2
    /\ LET rs == LoopReads(2)
       IN  Len(rs) >= 4 /\ \A i \in 1..3 : FullRead(rs[i])

\* Everything the peer has written on the connection so far, in order.
Written ==
    IF Len(sent) = 0 THEN << >>
    ELSE IF Len(sent) = 1 THEN ReplyTo(1)
    ELSE ReplyTo(1) \o ReplyTo(2)
\* The n-th loop made exactly one read, and it returned the whole reply to
\* the n-th packet in fewer bytes than the chunk size.
WholeRead(n) ==
    /\ ReplyTo(n) # << >> /\ Len(ReplyTo(n)) < bytes_in
    /\ LoopReads(n) = <<[loop |-> n, kind |-> "data", part |-> ReplyTo(n)]>>

\* C20: the byte stream is consumed in order, nothing lost and nothing read
\* twice, across the auth loop and the command loop; the reply's id and size
\* fields play no part; when each reply is delivered as exactly one read of
\* fewer bytes than the chunk size the call returns the body of the reply to
\* the EXECCOMMAND packet, and under every segmentation the bytes decoded as
\* the command response are those that follow the bytes the auth loop
\* consumed.
C20_StreamOrder ==
    /\ Chunks(reads) \o stream = Written
    /\ Len(sent) = 1 => Accumulated(1) \o stream = Written
    /\ Len(sent) = 2 =>
          LET a == auth_response[1]
          IN  /\ a \o response \o stream = Written
              /\ response = SubSeq(Written, Len(a) + 1, Len(a) + Len(response))
              /\ (Done /\ result.kind = "returned") =>
                    result.value = DecodedAsIs(response)
              /\ (Done /\ WholeRead(1) /\ WholeRead(2)) =>
                    result = Returned(decode_utf8(WireBody(ReplyTo(2))))

\* C20 witness: both replies were read whole, the second under a header whose
\* id (7) and size (0) match nothing sent, and its body "A" was returned.
C20_Witness ==
    /\ Done /\ Len(sent) = 2 /\ WholeRead(1) /\ WholeRead(2)
    /\ SubSeq(ReplyTo(2), 1, 8) = <<0, 0, 0, 0, 7, 0, 0, 0>>
    /\ result = Returned(<<65>>)

====
